---- MODULE Spec2Model ----
(***************************************************************************)
(* rexer: a tag-based multiplexer.  Bus (bus.rs) owns a Map (map.rs) from  *)
(* tag to LaneTx; LaneRx (lane.rs) owns the MapSlot of its sender; Mux     *)
(* (mux.rs) couples a Bus with one aggregator channel.                     *)
(*                                                                         *)
(* The registry is a DashMap: every access locks the shard of the key.     *)
(* Map::get_or_insert returns a RefMut, i.e. the shard's write guard, and  *)
(* Bus::push_item keeps it until it returns.  The channels are tokio mpsc  *)
(* channels: bounded FIFO, send fails once the receiver is closed or       *)
(* dropped, recv yields None once the buffer is empty and the channel is   *)
(* closed or has no sender left, dropping the receiver discards the        *)
(* buffer.                                                                 *)
(***************************************************************************)
EXTENDS Integers, Sequences, FiniteSets, TLC

\* ---- bounds of the model ------------------------------------------------
MaxPush == 3      \* number of Bus::push calls started in one behaviour
MaxLanes == 2     \* number of lanes created in one behaviour
LaneBuf == 2      \* Bus.lane_buf, the capacity of a lane channel
AggBuf == 1       \* buf of Mux::new, the capacity of the aggregator channel
MaxSend == 3      \* number of MuxSink::send_to calls started in one behaviour
MaxStreams == 2   \* number of streams a MuxSink creates in one behaviour
StreamBuf == 1    \* MuxSink.stream_buf, the capacity of a stream channel
PendBuf == 1      \* the capacity of the pending channel
MaxQPush == 4     \* number of Queue::push_back calls started in one behaviour
QueueCap == 2     \* capacity given to Queue::new_bounded

Tags == {"a", "b"}
Procs == {"p1", "p2"}
Values == 1..MaxPush
LaneIds == 1..MaxLanes
Shards == {1, 2}
SendValues == 1..MaxSend
StreamIds == 1..MaxStreams
UsizeMod == 16    \* AtomicUsize arithmetic wraps around (reduced width)
Free == "free"
Absent == 0

VARIABLES
    map,        \* Map.0: tag -> lane whose LaneTx is stored (Absent if none)
    shardOf,    \* DashMap's hash: the shard of every tag
    lock,       \* holder of every shard's lock (a producer's RefMut) or Free
    busAlive,   \* the Bus (and the Mux owning it) has not been dropped
    nlanes,     \* number of lanes created so far
    ltag,       \* MapSlot.key / LaneTx.tag of every lane
    rxst,       \* LaneRx.inner: "none", "open", "closed", "dropped"
    buf,        \* content of the lane channel: sequence of <<tag, value>>
    rpc,        \* position of the task owning the LaneRx
    ret,        \* outcome of the last recv that completed on every LaneRx
    recvd,      \* values recv has returned on every LaneRx, in order
    pc,         \* position of every producer inside Bus::push
    ptag,       \* tag argument of the producer's current push
    pval,       \* value argument of the producer's current push
    nextVal,    \* next value to be pushed (values are unique)
    agg,        \* content of the aggregator channel: <<tag, value>>
    aggRecvd,   \* items the aggregator receiver has yielded, in order
    nrep,       \* number of replies every lane handler has sent
    txDropped,  \* the sender half of the Lane handed out by Mux::send is gone
    aggDone,    \* the aggregator receiver has yielded None
    enq,        \* history: values enqueued into every lane, in order
    vtag,       \* history: the tag every value was pushed with
    vres,       \* history: what the push of every value returned
    pusher,     \* history: the producer that pushed every value
    evicted,    \* history: a clear, close or receiver drop has begun
    streamsTx,  \* MuxSink.streams_tx: tag -> stream whose Sender is stored
    nstreams,   \* number of streams the MuxSink has created
    stag,       \* the tag of every stream
    sst,        \* receiver of every stream: "none", "pending", "held", "dropped"
    sbuf,       \* content of every stream channel: sequence of values
    pending,    \* content of the pending channel: sequence of streams
    pendOpen,   \* the receiver of the pending channel is alive
    spc,        \* position of the task inside MuxSink::send_to
    sendTag,    \* tag argument of the current send_to
    sendVal,    \* value argument of the current send_to
    nextSend,   \* next value to be sent (values are unique)
    sres,       \* history: how the send_to of every value ended
    smapAt,     \* history: streams_tx when the current send_to began
    qbuf,       \* Queue.tx/rx: content of the channel
    qlen,       \* Queue.len
    qpc,        \* position of every task inside Queue::push_back
    qval,       \* item argument of the task's current push_back
    qnext,      \* next item to be pushed (items are unique)
    qpop,       \* position of the owner inside Queue::pop_front
    qsent,      \* history: the items in the order they entered the channel
    qpopped     \* history: the items pop_front has taken, in order

vars == <<map, shardOf, lock, busAlive, nlanes, ltag, rxst, buf, rpc, ret,
          recvd, pc, ptag, pval, nextVal, agg, aggRecvd, nrep, txDropped,
          aggDone, enq, vtag, vres, pusher, evicted, streamsTx, nstreams,
          stag, sst, sbuf, pending, pendOpen, spc, sendTag, sendVal,
          nextSend, sres, smapAt, qbuf, qlen, qpc, qval, qnext, qpop,
          qsent, qpopped>>

busVars == <<map, lock, busAlive>>
laneVars == <<nlanes, ltag, rxst, buf, rpc, ret, recvd, enq>>
prodVars == <<pc, ptag, pval, nextVal, vtag, vres, pusher>>
muxVars == <<agg, aggRecvd, nrep, txDropped, aggDone>>
sinkVars == <<streamsTx, nstreams, stag, sst, sbuf, pending, pendOpen, spc,
              sendTag, sendVal, nextSend, sres, smapAt>>
queueVars == <<qbuf, qlen, qpc, qval, qnext, qpop, qsent, qpopped>>
otherVars == <<sinkVars, queueVars>>
coreVars == <<busVars, shardOf, laneVars, prodVars, muxVars, evicted>>

\* ---- helpers ------------------------------------------------------------
RECURSIVE SeqVals(_)
\* the values of a sequence of <<tag, value>> items
SeqVals(s) == IF s = <<>> THEN <<>> ELSE <<Head(s)[2]>> \o SeqVals(Tail(s))

Range(s) == {s[i] : i \in 1..Len(s)}

Created(l) == l \in 1..nlanes

\* DashMap: an operation on key t needs the lock of t's shard
ShardFree(t) == lock[shardOf[t]] = Free

\* Map::remove / DashMap::remove
MapRemove(m, t) == [m EXCEPT ![t] = Absent]

\* MapSlot::manual_drop, called by LaneRx::close and LaneRx::map_value: the
\* handle is released early, which removes the entry stored under its key
ManualDrop(m, t) == MapRemove(m, t)

\* DashMap::clear
MapClear(m) == [t \in Tags |-> Absent]

\* the keys DashMap holds in shard sh
ShardKeys(m, sh) == {t \in Tags : shardOf[t] = sh /\ m[t] # Absent}

RECURSIVE SumShards(_, _)
\* DashMap::len: the sum of the sizes of the shards in ss
SumShards(m, ss) ==
    IF ss = {} THEN 0
    ELSE LET sh == CHOOSE x \in ss : TRUE
         IN Cardinality(ShardKeys(m, sh)) + SumShards(m, ss \ {sh})

\* mutant: only the first shard is counted
MapLen_FirstShard(m) == Cardinality(ShardKeys(m, 1))

\* Map::len: self.0.len()
MapLen(m) == SumShards(m, Shards)

\* Map::is_empty: self.0.is_empty(), which is len() == 0
MapIsEmpty(m) == MapLen(m) = 0

\* Map::get_mut: the entry of the key, None (Absent) if there is none
MapGetMut(m, t) == m[t]

\* MapSlot::is_valid: self.map.contains_key(&self.key)
SlotIsValid(l) == map[ltag[l]] # Absent

\* LaneRx::is_closed: !self.tx_slot.is_valid()
RxIsClosed(l) == ~SlotIsValid(l)

\* LaneStream::is_terminated: self.0.is_closed()
IsTerminated(l) == RxIsClosed(l)

\* LaneTx::is_closed: Sender::is_closed, the receiver was closed or dropped
TxIsClosed(l) == rxst[l] \in {"closed", "dropped"}

\* the lane channel has a sender: the LaneTx stored in the map
HasSender(l) == map[ltag[l]] = l

\* mutant: every item is stamped with one and the same tag
TxItem_FixedTag(t, v) == <<"a", v>>

\* LaneTx::send: the item carries the sender's tag
TxItem(t, v) == <<t, v>>

\* the reply a handler sends for a received value
ReplyOf(v) == 0 - v

\* ---- initial state ------------------------------------------------------
Init ==
    /\ map = [t \in Tags |-> Absent]
    /\ shardOf \in {f \in [Tags -> Shards] : f["a"] = 1}
    /\ lock = [s \in Shards |-> Free]
    /\ busAlive = TRUE
    /\ nlanes = 0
    /\ ltag = [l \in LaneIds |-> "a"]
    /\ rxst = [l \in LaneIds |-> "none"]
    /\ buf = [l \in LaneIds |-> <<>>]
    /\ rpc = [l \in LaneIds |-> "idle"]
    /\ ret = [l \in LaneIds |-> "-"]
    /\ recvd = [l \in LaneIds |-> <<>>]
    /\ pc = [p \in Procs |-> "idle"]
    /\ ptag = [p \in Procs |-> "a"]
    /\ pval = [p \in Procs |-> 0]
    /\ nextVal = 1
    /\ agg = <<>>
    /\ aggRecvd = <<>>
    /\ txDropped = [l \in LaneIds |-> FALSE]
    /\ aggDone = FALSE
    /\ nrep = [l \in LaneIds |-> 0]
    /\ enq = [l \in LaneIds |-> <<>>]
    /\ vtag = [v \in Values |-> "a"]
    /\ vres = [v \in Values |-> <<"-">>]
    /\ pusher = [v \in Values |-> "-"]
    /\ evicted = FALSE
    /\ streamsTx = [t \in Tags |-> Absent]
    /\ nstreams = 0
    /\ stag = [x \in StreamIds |-> "a"]
    /\ sst = [x \in StreamIds |-> "none"]
    /\ sbuf = [x \in StreamIds |-> <<>>]
    /\ pending = <<>>
    /\ pendOpen = TRUE
    /\ spc = "idle"
    /\ sendTag = "a"
    /\ sendVal = 0
    /\ nextSend = 1
    /\ sres = [v \in SendValues |-> "-"]
    /\ smapAt = [t \in Tags |-> Absent]
    /\ qbuf = <<>>
    /\ qlen = 0
    /\ qpc = [p \in Procs |-> "idle"]
    /\ qval = [p \in Procs |-> 0]
    /\ qnext = 1
    /\ qpop = "idle"
    /\ qsent = <<>>
    /\ qpopped = <<>>

\* ---- Bus::push ----------------------------------------------------------
\* mutant: the creating call keeps the new receiver and returns None
CreateLane_ReturnsNone(p, t, v) ==
    LET l == nlanes + 1 IN
    /\ nlanes < MaxLanes
    /\ map' = [map EXCEPT ![t] = l]
    /\ nlanes' = l
    /\ ltag' = [ltag EXCEPT ![l] = t]
    /\ rxst' = [rxst EXCEPT ![l] = "open"]
    /\ buf' = [buf EXCEPT ![l] = <<TxItem(t, v)>>]
    /\ enq' = [enq EXCEPT ![l] = <<v>>]
    /\ pc' = [pc EXCEPT ![p] = "idle"]
    /\ vres' = [vres EXCEPT ![v] = <<"None">>]
    /\ UNCHANGED <<lock, rpc, ret, recvd>>

\* Map::get_or_insert on a vacant key: the constructor of push_item builds
\* the channel, LaneRx::new(rx, slot) and LaneTx::new(tx, tag); the entry is
\* inserted and the value sent while the shard is locked; Ok(Some(lane_rx))
CreateLane(p, t, v) ==
    LET l == nlanes + 1 IN
    /\ nlanes < MaxLanes
    /\ map' = [map EXCEPT ![t] = l]
    /\ nlanes' = l
    /\ ltag' = [ltag EXCEPT ![l] = t]
    /\ rxst' = [rxst EXCEPT ![l] = "open"]
    /\ buf' = [buf EXCEPT ![l] = <<TxItem(t, v)>>]
    /\ enq' = [enq EXCEPT ![l] = <<v>>]
    /\ pc' = [pc EXCEPT ![p] = "idle"]
    /\ vres' = [vres EXCEPT ![v] = <<"Some", l>>]
    /\ UNCHANGED <<lock, rpc, ret, recvd>>

\* Map::get_or_insert on an occupied key: the RefMut keeps the shard locked;
\* tx.is_closed() leads to self.inner.remove(&tag), else to tx.send(value)
FindLane(p, t) ==
    /\ lock' = [lock EXCEPT ![shardOf[t]] = p]
    /\ pc' = [pc EXCEPT ![p] = IF TxIsClosed(map[t]) THEN "remove" ELSE "send"]
    /\ UNCHANGED <<map, nlanes, ltag, rxst, buf, enq, vres, rpc, ret,
                   recvd>>

\* mutant: the entry is inserted without looking for an existing one
PushItem_AlwaysInsert(p, t, v) ==
    /\ ShardFree(t)
    /\ CreateLane(p, t, v)

\* the first part of push_item, up to the first suspension point
PushItem(p, t, v) ==
    /\ ShardFree(t)
    /\ IF map[t] = Absent THEN CreateLane(p, t, v) ELSE FindLane(p, t)

\* a producer calls Bus::push(tag, value) (through Mux::send)
PushStart(p, t) ==
    /\ pc[p] = "idle"
    /\ busAlive
    /\ nextVal <= MaxPush
    /\ ptag' = [ptag EXCEPT ![p] = t]
    /\ pval' = [pval EXCEPT ![p] = nextVal]
    /\ vtag' = [vtag EXCEPT ![nextVal] = t]
    /\ pusher' = [pusher EXCEPT ![nextVal] = p]
    /\ nextVal' = nextVal + 1
    /\ PushItem(p, t, nextVal)
    /\ UNCHANGED <<shardOf, busAlive, muxVars, otherVars, evicted>>

\* mutant: the error of tx.send is ignored and None returned
PushSend_IgnoreErr(p) ==
    LET t == ptag[p]
        l == map[t] IN
    /\ pc[p] = "send"
    /\ IF TxIsClosed(l)
       THEN /\ pc' = [pc EXCEPT ![p] = "idle"]
            /\ vres' = [vres EXCEPT ![pval[p]] = <<"None">>]
            /\ UNCHANGED <<buf, enq>>
       ELSE /\ Len(buf[l]) < LaneBuf
            /\ buf' = [buf EXCEPT ![l] = Append(@, TxItem(ltag[l], pval[p]))]
            /\ enq' = [enq EXCEPT ![l] = Append(@, pval[p])]
            /\ pc' = [pc EXCEPT ![p] = "idle"]
            /\ vres' = [vres EXCEPT ![pval[p]] = <<"None">>]
    /\ lock' = [lock EXCEPT ![shardOf[t]] = Free]
    /\ UNCHANGED <<map, shardOf, busAlive, nlanes, ltag, rxst, rpc, ret, recvd,
                   ptag, pval, nextVal, vtag, pusher, muxVars, otherVars, evicted>>

\* mutant: the value is put in front of the values already buffered
PushSend_Front(p) ==
    LET t == ptag[p]
        l == map[t] IN
    /\ pc[p] = "send"
    /\ IF TxIsClosed(l)
       THEN /\ pc' = [pc EXCEPT ![p] = "retry"]
            /\ UNCHANGED <<buf, enq, vres>>
       ELSE /\ Len(buf[l]) < LaneBuf
            /\ buf' = [buf EXCEPT ![l] = <<TxItem(ltag[l], pval[p])>> \o @]
            /\ enq' = [enq EXCEPT ![l] = Append(@, pval[p])]
            /\ pc' = [pc EXCEPT ![p] = "idle"]
            /\ vres' = [vres EXCEPT ![pval[p]] = <<"None">>]
    /\ lock' = [lock EXCEPT ![shardOf[t]] = Free]
    /\ UNCHANGED <<map, shardOf, busAlive, nlanes, ltag, rxst, rpc, ret, recvd,
                   ptag, pval, nextVal, vtag, pusher, muxVars, otherVars, evicted>>

\* tx.send(value).await on an existing lane, the shard still locked:
\* Err once the receiver is closed or dropped, suspended while the buffer is
\* full, else the value is enqueued and push returns None
PushSend(p) ==
    LET t == ptag[p]
        l == map[t] IN
    /\ pc[p] = "send"
    /\ IF TxIsClosed(l)
       THEN /\ pc' = [pc EXCEPT ![p] = "retry"]
            /\ UNCHANGED <<buf, enq, vres>>
       ELSE /\ Len(buf[l]) < LaneBuf
            /\ buf' = [buf EXCEPT ![l] = Append(@, TxItem(ltag[l], pval[p]))]
            /\ enq' = [enq EXCEPT ![l] = Append(@, pval[p])]
            /\ pc' = [pc EXCEPT ![p] = "idle"]
            /\ vres' = [vres EXCEPT ![pval[p]] = <<"None">>]
    /\ lock' = [lock EXCEPT ![shardOf[t]] = Free]
    /\ UNCHANGED <<map, shardOf, busAlive, nlanes, ltag, rxst, rpc, ret, recvd,
                   ptag, pval, nextVal, vtag, pusher, muxVars, otherVars, evicted>>

\* push's loop: push_item returned Err((tag, value)), try again with both
PushRetry(p) ==
    /\ pc[p] = "retry"
    /\ PushItem(p, ptag[p], pval[p])
    /\ UNCHANGED <<shardOf, busAlive, ptag, pval, nextVal, vtag, pusher,
                   muxVars, otherVars, evicted>>

\* A producer at "remove" executes self.inner.remove(&tag) while its own
\* RefMut holds the shard's lock: DashMap::remove waits for that lock, so
\* the producer has no further step.

\* ---- LaneRx -------------------------------------------------------------
\* LaneRx::recv, first statement: if self.is_closed() { return None }
RecvStart(l) ==
    /\ Created(l)
    /\ rpc[l] = "idle"
    /\ ShardFree(ltag[l])
    /\ IF RxIsClosed(l)
       THEN /\ ret' = [ret EXCEPT ![l] = "None"]
            /\ UNCHANGED rpc
       ELSE /\ rpc' = [rpc EXCEPT ![l] = "recv"]
            /\ UNCHANGED ret
    /\ UNCHANGED <<busVars, shardOf, nlanes, ltag, rxst, buf, recvd, enq,
                   prodVars, muxVars, otherVars, evicted>>

\* self.inner.recv().await yields an item; map_value(Some((tag, value)))
RecvTake(l) ==
    /\ rpc[l] = "recv"
    /\ buf[l] # <<>>
    /\ recvd' = [recvd EXCEPT ![l] = Append(@, Head(buf[l])[2])]
    /\ buf' = [buf EXCEPT ![l] = Tail(@)]
    /\ rpc' = [rpc EXCEPT ![l] = "idle"]
    /\ ret' = [ret EXCEPT ![l] = "Some"]
    /\ UNCHANGED <<busVars, shardOf, nlanes, ltag, rxst, enq, prodVars,
                   muxVars, otherVars, evicted>>

\* self.inner.recv().await yields None: the buffer is empty and the channel
\* is closed or its sender is gone
RecvEnd(l) ==
    /\ rpc[l] = "recv"
    /\ buf[l] = <<>>
    /\ rxst[l] = "closed" \/ ~HasSender(l)
    /\ rpc' = [rpc EXCEPT ![l] = "mdrop"]
    /\ UNCHANGED <<busVars, shardOf, nlanes, ltag, rxst, buf, ret, recvd, enq,
                   prodVars, muxVars, otherVars, evicted>>

\* map_value(None): self.tx_slot.manual_drop(), then None
RecvManualDrop(l) ==
    /\ rpc[l] = "mdrop"
    /\ ShardFree(ltag[l])
    /\ map' = ManualDrop(map, ltag[l])
    /\ rpc' = [rpc EXCEPT ![l] = "idle"]
    /\ ret' = [ret EXCEPT ![l] = "None"]
    /\ UNCHANGED <<lock, busAlive, shardOf, nlanes, ltag, rxst, buf, recvd,
                   enq, prodVars, muxVars, otherVars, evicted>>

\* LaneRx::close, the test: if !self.is_closed()
CloseStart(l) ==
    /\ Created(l)
    /\ rpc[l] = "idle"
    /\ ShardFree(ltag[l])
    /\ IF RxIsClosed(l)
       THEN UNCHANGED rpc
       ELSE rpc' = [rpc EXCEPT ![l] = "close"]
    /\ UNCHANGED ret
    /\ evicted' = (evicted \/ ~RxIsClosed(l))
    /\ UNCHANGED <<busVars, shardOf, nlanes, ltag, rxst, buf, recvd, enq,
                   prodVars, muxVars, otherVars>>

\* LaneRx::close: self.inner.close()
CloseInner(l) ==
    /\ rpc[l] = "close"
    /\ rxst' = [rxst EXCEPT ![l] = "closed"]
    /\ rpc' = [rpc EXCEPT ![l] = "closeslot"]
    /\ UNCHANGED <<busVars, shardOf, nlanes, ltag, buf, ret, recvd, enq,
                   prodVars, muxVars, otherVars, evicted>>

\* LaneRx::close: self.tx_slot.manual_drop()
CloseManualDrop(l) ==
    /\ rpc[l] = "closeslot"
    /\ ShardFree(ltag[l])
    /\ map' = ManualDrop(map, ltag[l])
    /\ rpc' = [rpc EXCEPT ![l] = "idle"]
    /\ UNCHANGED <<ret, lock, busAlive, shardOf, nlanes, ltag, rxst, buf, recvd,
                   enq, prodVars, muxVars, otherVars, evicted>>

\* the LaneRx is dropped, first field: inner (the tokio Receiver closes the
\* channel and discards what is buffered)
DropRx(l) ==
    /\ Created(l)
    /\ rpc[l] \in {"idle", "recv"}
    /\ rxst' = [rxst EXCEPT ![l] = "dropped"]
    /\ buf' = [buf EXCEPT ![l] = <<>>]
    /\ rpc' = [rpc EXCEPT ![l] = "dropslot"]
    /\ evicted' = TRUE
    /\ UNCHANGED <<busVars, shardOf, nlanes, ltag, ret, recvd, enq, prodVars,
                   muxVars, otherVars>>

\* mutant: MapSlot without a Drop implementation
DropSlot_NoRemove(l) ==
    /\ rpc[l] = "dropslot"
    /\ ShardFree(ltag[l])
    /\ rpc' = [rpc EXCEPT ![l] = "gone"]
    /\ UNCHANGED <<ret, map, lock, busAlive, shardOf, nlanes, ltag, rxst, buf,
                   recvd, enq, prodVars, muxVars, otherVars, evicted>>

\* the LaneRx is dropped, second field: tx_slot (Drop for MapSlot)
DropSlot(l) ==
    /\ rpc[l] = "dropslot"
    /\ ShardFree(ltag[l])
    /\ map' = MapRemove(map, ltag[l])
    /\ rpc' = [rpc EXCEPT ![l] = "gone"]
    /\ UNCHANGED <<ret, lock, busAlive, shardOf, nlanes, ltag, rxst, buf, recvd,
                   enq, prodVars, muxVars, otherVars, evicted>>

\* ---- Bus::clear, Drop for Bus, Mux::close ---------------------------------
\* clear and drop take the Bus by &mut self or by value: no push is running
NoPush == \A p \in Procs : pc[p] = "idle"

\* Bus::clear: self.inner.clear()
Clear ==
    /\ busAlive
    /\ NoPush
    /\ map' = MapClear(map)
    /\ evicted' = TRUE
    /\ UNCHANGED <<lock, busAlive, shardOf, laneVars, prodVars, muxVars, otherVars>>

\* mutant: Bus without a Drop implementation, the map lives on in the slots
BusDrop_NoClear ==
    /\ busAlive
    /\ NoPush
    /\ busAlive' = FALSE
    /\ evicted' = TRUE
    /\ UNCHANGED <<map, lock, shardOf, laneVars, prodVars, muxVars, otherVars>>

\* Drop for Bus: self.clear(), after which nothing can be pushed
BusDrop ==
    /\ busAlive
    /\ NoPush
    /\ map' = MapClear(map)
    /\ busAlive' = FALSE
    /\ evicted' = TRUE
    /\ UNCHANGED <<lock, shardOf, laneVars, prodVars, muxVars, otherVars>>

\* Mux::close(self): drop(self), which drops the Bus
MuxClose == BusDrop

\* ---- Mux: the reply path ------------------------------------------------
\* Mux::send builds the Lane's sender as LaneTx::new(self.tx.clone(),
\* rx.tag().clone()): the sender of the aggregator channel with the lane's tag
LaneSenderItem(l, v) == TxItem(ltag[l], v)

\* mutant: the Lane's sender is the lane channel's own sender
Reply_IntoLane(l) ==
    /\ Created(l)
    /\ ~txDropped[l]
    /\ nrep[l] < Len(recvd[l])
    /\ ~TxIsClosed(l)
    /\ Len(buf[l]) < LaneBuf
    /\ buf' = [buf EXCEPT ![l] =
                  Append(@, LaneSenderItem(l, ReplyOf(recvd[l][nrep[l] + 1])))]
    /\ nrep' = [nrep EXCEPT ![l] = @ + 1]
    /\ UNCHANGED <<busVars, shardOf, nlanes, ltag, rxst, rpc, ret, recvd, enq,
                   prodVars, agg, aggRecvd, txDropped, aggDone, evicted, otherVars>>

\* the handler of lane l answers the next value it received:
\* lane.sender().send(reply)
Reply(l) ==
    /\ Created(l)
    /\ ~txDropped[l]
    /\ nrep[l] < Len(recvd[l])
    /\ Len(agg) < AggBuf
    /\ agg' = Append(agg, LaneSenderItem(l, ReplyOf(recvd[l][nrep[l] + 1])))
    /\ nrep' = [nrep EXCEPT ![l] = @ + 1]
    /\ UNCHANGED <<busVars, shardOf, laneVars, prodVars, aggRecvd, txDropped,
                   aggDone, evicted, otherVars>>

\* the handler drops the Lane (or its sender half after Lane::split): the
\* clone of Mux.tx made by Mux::send is gone
DropLaneSender(l) ==
    /\ Created(l)
    /\ ~txDropped[l]
    /\ txDropped' = [txDropped EXCEPT ![l] = TRUE]
    /\ UNCHANGED <<busVars, shardOf, laneVars, prodVars, agg, aggRecvd, nrep,
                   aggDone, evicted, otherVars>>

\* the aggregator channel has a sender: Mux.tx or the clone held by a Lane
AggHasSender == busAlive \/ \E l \in 1..nlanes : ~txDropped[l]

\* the aggregator receiver returned by Mux::new: recv yields an item
AggRecv ==
    /\ agg # <<>>
    /\ aggRecvd' = Append(aggRecvd, Head(agg))
    /\ agg' = Tail(agg)
    /\ UNCHANGED <<busVars, shardOf, laneVars, prodVars, nrep, txDropped,
                   aggDone, evicted, otherVars>>

\* mutant: end of stream as soon as no sender is left, buffered items lost
AggEnd_DropsBuffered ==
    /\ ~aggDone
    /\ ~AggHasSender
    /\ aggDone' = TRUE
    /\ agg' = <<>>
    /\ UNCHANGED <<busVars, shardOf, laneVars, prodVars, aggRecvd, nrep,
                   txDropped, evicted, otherVars>>

\* the aggregator receiver: recv yields None, the buffer is empty and no
\* sender is left
AggEnd ==
    /\ ~aggDone
    /\ agg = <<>>
    /\ ~AggHasSender
    /\ aggDone' = TRUE
    /\ UNCHANGED <<busVars, shardOf, laneVars, prodVars, agg, aggRecvd, nrep,
                   txDropped, evicted, otherVars>>

\* ---- MuxSink ------------------------------------------------------------
\* mpsc::Sender::is_closed of the sender of stream x: its receiver is gone
StreamTxIsClosed(x) == sst[x] = "dropped"

\* MuxSink::send_to, up to its first suspension point: the Mutex is taken
\* (calls exclude each other, the guard lives to the end of the call), the
\* tag is looked up; an open sender leads to tx.send(value), an absent or
\* closed one to add_or_replace_stream
SinkSendTo(t) ==
    /\ spc = "idle"
    /\ nextSend <= MaxSend
    /\ sendTag' = t
    /\ sendVal' = nextSend
    /\ nextSend' = nextSend + 1
    /\ smapAt' = streamsTx
    /\ spc' = IF streamsTx[t] # Absent /\ ~StreamTxIsClosed(streamsTx[t])
              THEN "send" ELSE "publish"
    /\ UNCHANGED <<coreVars, queueVars, streamsTx, nstreams, stag, sst, sbuf, pending,
                   pendOpen, sres>>

\* send_to: tx.send(value).await on the registered sender; Err(err) leads to
\* add_or_replace_stream(tag, err.0, ..), else Ok(())
SinkSend ==
    LET x == streamsTx[sendTag] IN
    /\ spc = "send"
    /\ IF StreamTxIsClosed(x)
       THEN /\ spc' = "publish"
            /\ UNCHANGED <<sbuf, sres>>
       ELSE /\ Len(sbuf[x]) < StreamBuf
            /\ sbuf' = [sbuf EXCEPT ![x] = Append(@, sendVal)]
            /\ sres' = [sres EXCEPT ![sendVal] = "Ok"]
            /\ spc' = "idle"
    /\ UNCHANGED <<coreVars, queueVars, streamsTx, nstreams, stag, sst, pending,
                   pendOpen, sendTag, sendVal, nextSend, smapAt>>

\* add_or_replace_stream: the channel and the MuxStream are built and
\* self.pending_tx.send(stream).await publishes the stream; if that fails,
\* Err(SendError((tag, value))) is returned
SinkPublish ==
    LET x == nstreams + 1 IN
    /\ spc = "publish"
    /\ IF ~pendOpen
       THEN /\ sres' = [sres EXCEPT ![sendVal] = "Err"]
            /\ spc' = "idle"
            /\ UNCHANGED <<nstreams, stag, sst, pending>>
       ELSE /\ Len(pending) < PendBuf
            /\ nstreams < MaxStreams
            /\ nstreams' = x
            /\ stag' = [stag EXCEPT ![x] = sendTag]
            /\ sst' = [sst EXCEPT ![x] = "pending"]
            /\ pending' = Append(pending, x)
            /\ spc' = "first"
            /\ UNCHANGED sres
    /\ UNCHANGED <<coreVars, queueVars, streamsTx, sbuf, pendOpen, sendTag, sendVal,
                   nextSend, smapAt>>

\* add_or_replace_stream: tx.send(value).await.unwrap(), which panics if the
\* published stream has been dropped meanwhile; then the sender is stored
\* under the tag, replacing the old one, and Ok(()) returned
SinkFirst ==
    LET x == nstreams IN
    /\ spc = "first"
    /\ IF StreamTxIsClosed(x)
       THEN /\ sres' = [sres EXCEPT ![sendVal] = "Panic"]
            /\ UNCHANGED <<sbuf, streamsTx>>
       ELSE /\ sbuf' = [sbuf EXCEPT ![x] = <<sendVal>>]
            /\ streamsTx' = [streamsTx EXCEPT ![sendTag] = x]
            /\ sres' = [sres EXCEPT ![sendVal] = "Ok"]
    /\ spc' = "idle"
    /\ UNCHANGED <<coreVars, queueVars, nstreams, stag, sst, pending, pendOpen, sendTag,
                   sendVal, nextSend, smapAt>>

\* MuxSink::remove: self.streams_tx.lock().await.remove(tag)
SinkRemove(t) ==
    /\ spc = "idle"
    /\ streamsTx[t] # Absent
    /\ streamsTx' = [streamsTx EXCEPT ![t] = Absent]
    /\ UNCHANGED <<coreVars, queueVars, nstreams, stag, sst, sbuf, pending, pendOpen,
                   spc, sendTag, sendVal, nextSend, sres, smapAt>>

\* the consumer of the pending channel receives a published stream
PendingRecv ==
    /\ pending # <<>>
    /\ sst' = [sst EXCEPT ![Head(pending)] = "held"]
    /\ pending' = Tail(pending)
    /\ UNCHANGED <<coreVars, queueVars, streamsTx, nstreams, stag, sbuf, pendOpen, spc,
                   sendTag, sendVal, nextSend, sres, smapAt>>

\* the consumer drops the receiver of the pending channel: the streams still
\* buffered in it are dropped, and with them their receivers
PendingDrop ==
    /\ pendOpen
    /\ pendOpen' = FALSE
    /\ pending' = <<>>
    /\ sst' = [x \in StreamIds |->
                  IF x \in Range(pending) THEN "dropped" ELSE sst[x]]
    /\ sbuf' = [x \in StreamIds |->
                  IF x \in Range(pending) THEN <<>> ELSE sbuf[x]]
    /\ UNCHANGED <<coreVars, queueVars, streamsTx, nstreams, stag, spc, sendTag, sendVal,
                   nextSend, sres, smapAt>>

\* the holder of stream x receives the next value from it
StreamRecv(x) ==
    /\ sst[x] = "held"
    /\ sbuf[x] # <<>>
    /\ sbuf' = [sbuf EXCEPT ![x] = Tail(@)]
    /\ UNCHANGED <<coreVars, queueVars, streamsTx, nstreams, stag, sst, pending, pendOpen,
                   spc, sendTag, sendVal, nextSend, sres, smapAt>>

\* the holder of stream x drops it: the receiver of its channel is gone
StreamDrop(x) ==
    /\ sst[x] = "held"
    /\ sst' = [sst EXCEPT ![x] = "dropped"]
    /\ sbuf' = [sbuf EXCEPT ![x] = <<>>]
    /\ UNCHANGED <<coreVars, queueVars, streamsTx, nstreams, stag, pending, pendOpen, spc,
                   sendTag, sendVal, nextSend, sres, smapAt>>

\* ---- Queue --------------------------------------------------------------
\* Queue::capacity
QCapacity == QueueCap

\* Queue::len: self.len.load(Relaxed)
QLen == qlen

\* Queue::is_empty: self.len() == 0
QIsEmpty == QLen = 0

\* Queue::is_full: self.len() == self.capacity()
QIsFull == QLen = QCapacity

\* push_back borrows the queue shared, pop_front exclusively: no push_back
\* is running while pop_front runs, and the other way round
NoQPush == \A p \in Procs : qpc[p] = "idle"

\* a task calls push_back(item) and reaches self.tx.send(item).await
QPushBack(p) ==
    /\ qpc[p] = "idle"
    /\ qpop = "idle"
    /\ qnext <= MaxQPush
    /\ qval' = [qval EXCEPT ![p] = qnext]
    /\ qnext' = qnext + 1
    /\ qpc' = [qpc EXCEPT ![p] = "send"]
    /\ UNCHANGED <<coreVars, sinkVars, qbuf, qlen, qpop, qsent, qpopped>>

\* push_back: self.tx.send(item).await completes once there is room
QPushSend(p) ==
    /\ qpc[p] = "send"
    /\ Len(qbuf) < QCapacity
    /\ qbuf' = Append(qbuf, qval[p])
    /\ qsent' = Append(qsent, qval[p])
    /\ qpc' = [qpc EXCEPT ![p] = "count"]
    /\ UNCHANGED <<coreVars, sinkVars, qlen, qval, qnext, qpop, qpopped>>

\* push_back: self.len.fetch_add(1, Relaxed)
QPushCount(p) ==
    /\ qpc[p] = "count"
    /\ qlen' = (qlen + 1) % UsizeMod
    /\ qpc' = [qpc EXCEPT ![p] = "idle"]
    /\ UNCHANGED <<coreVars, sinkVars, qbuf, qval, qnext, qpop, qsent,
                   qpopped>>

\* the future of a push_back waiting for room is dropped: nothing was sent
QPushCancel(p) ==
    /\ qpc[p] = "send"
    /\ Len(qbuf) = QCapacity
    /\ qpc' = [qpc EXCEPT ![p] = "idle"]
    /\ UNCHANGED <<coreVars, sinkVars, qbuf, qlen, qval, qnext, qpop, qsent,
                   qpopped>>

\* pop_front: self.rx.recv().await yields the item at the front
QPopRecv ==
    /\ qpop = "idle"
    /\ NoQPush
    /\ qbuf # <<>>
    /\ qpopped' = Append(qpopped, Head(qbuf))
    /\ qbuf' = Tail(qbuf)
    /\ qpop' = "count"
    /\ UNCHANGED <<coreVars, sinkVars, qlen, qpc, qval, qnext, qsent>>

\* mutant: pop_front does not touch the counter
QPopCount_Keep ==
    /\ qpop = "count"
    /\ qpop' = "idle"
    /\ UNCHANGED <<coreVars, sinkVars, qbuf, qlen, qpc, qval, qnext, qsent,
                   qpopped>>

\* pop_front: self.len.fetch_sub(1, Relaxed)
QPopCount ==
    /\ qpop = "count"
    /\ qlen' = (qlen + UsizeMod - 1) % UsizeMod
    /\ qpop' = "idle"
    /\ UNCHANGED <<coreVars, sinkVars, qbuf, qpc, qval, qnext, qsent,
                   qpopped>>

\* ---- specifications -----------------------------------------------------
\* the receiver side of every lane
LaneNext ==
    \/ \E l \in LaneIds : RecvStart(l)
    \/ \E l \in LaneIds : RecvTake(l)
    \/ \E l \in LaneIds : RecvEnd(l)
    \/ \E l \in LaneIds : RecvManualDrop(l)
    \/ \E l \in LaneIds : CloseStart(l)
    \/ \E l \in LaneIds : CloseInner(l)
    \/ \E l \in LaneIds : CloseManualDrop(l)
    \/ \E l \in LaneIds : DropRx(l)
    \/ \E l \in LaneIds : DropSlot(l)

\* a Bus used directly: push(&self) may be called by several tasks at once
Next ==
    \/ \E p \in Procs, t \in Tags : PushStart(p, t)
    \/ \E p \in Procs : PushSend(p)
    \/ \E p \in Procs : PushRetry(p)
    \/ LaneNext
    \/ Clear
    \/ BusDrop

Spec == Init /\ [][Next]_vars

\* a Mux: send(&mut self) admits one call at a time; the handlers reply
\* through the Lane's sender and the aggregator receiver is drained
MuxProc == "p1"

MuxNext ==
    \/ \E t \in Tags : PushStart(MuxProc, t)
    \/ PushSend(MuxProc)
    \/ PushRetry(MuxProc)
    \/ LaneNext
    \/ MuxClose
    \/ \E l \in LaneIds : Reply(l)
    \/ \E l \in LaneIds : DropLaneSender(l)
    \/ AggRecv
    \/ AggEnd

MuxSpec == Init /\ [][MuxNext]_vars

\* a MuxSink fed by one task at a time, the pending channel and the streams
\* consumed by other tasks
SinkNext ==
    \/ \E t \in Tags : SinkSendTo(t)
    \/ SinkSend
    \/ SinkPublish
    \/ SinkFirst
    \/ \E t \in Tags : SinkRemove(t)
    \/ PendingRecv
    \/ PendingDrop
    \/ \E x \in StreamIds : StreamRecv(x)
    \/ \E x \in StreamIds : StreamDrop(x)

SinkSpec == Init /\ [][SinkNext]_vars

\* a Queue shared by the pushing tasks, popped by its owner
QueueNext ==
    \/ \E p \in Procs : QPushBack(p)
    \/ \E p \in Procs : QPushSend(p)
    \/ \E p \in Procs : QPushCount(p)
    \/ \E p \in Procs : QPushCancel(p)
    \/ QPopRecv
    \/ QPopCount

QueueSpec == Init /\ [][QueueNext]_vars

TypeOK ==
    /\ qlen \in 0..(UsizeMod - 1)
    /\ qpop \in {"idle", "count"}
    /\ streamsTx \in [Tags -> {Absent} \cup StreamIds]
    /\ nstreams \in 0..MaxStreams
    /\ spc \in {"idle", "send", "publish", "first"}
    /\ sres \in [SendValues -> {"-", "Ok", "Err", "Panic"}]
    /\ txDropped \in [LaneIds -> BOOLEAN]
    /\ aggDone \in BOOLEAN
    /\ map \in [Tags -> {Absent} \cup LaneIds]
    /\ nlanes \in 0..MaxLanes
    /\ \A l \in LaneIds : Len(buf[l]) <= LaneBuf
    /\ Len(agg) <= AggBuf

\* ---- vocabulary of the properties ----------------------------------------
Returned == {v \in Values : vres[v] # <<"-">>}

Occurrences(s, v) == Cardinality({i \in 1..Len(s) : s[i] = v})

\* the LaneRx of lane l exists: created and not (being) dropped
RxLive(l) == Created(l) /\ rxst[l] # "dropped"

IsPrefix(s, t) == Len(s) <= Len(t) /\ SubSeq(t, 1, Len(s)) = s

\* the lanes a value was enqueued into
LanesOf(v) == {l \in LaneIds : v \in Range(enq[l])}

\* ---- C1 ------------------------------------------------------------------
\* C1 as stated: every value whose push returned has been received exactly
\* once by one receiver of its tag, or is still buffered in a lane whose
\* receiver exists and can take it; no value is ever discarded.
C1_NoMessageLoss ==
    \A v \in Returned :
        \E l \in LaneIds :
            /\ ltag[l] = vtag[v]
            /\ \/ Occurrences(recvd[l], v) = 1
               \/ RxLive(l) /\ Occurrences(SeqVals(buf[l]), v) = 1

\* C1 amended: every value whose push returned was enqueued into exactly one
\* lane, a lane of its tag; it is received at most once and only by that
\* lane's receiver, never while still buffered; it is in neither place only
\* when that lane's receiver has been dropped.  Values of pushes that have
\* not returned are in no lane.
C1_AtMostOnce ==
    /\ \A v \in Returned :
        /\ Cardinality(LanesOf(v)) = 1
        /\ \A l \in LanesOf(v) :
            /\ ltag[l] = vtag[v]
            /\ Occurrences(enq[l], v) = 1
            /\ Occurrences(recvd[l], v) + Occurrences(SeqVals(buf[l]), v) <= 1
            /\ Occurrences(recvd[l], v) + Occurrences(SeqVals(buf[l]), v) = 0
                   => rxst[l] = "dropped"
        /\ \A l \in LaneIds \ LanesOf(v) :
            Occurrences(recvd[l], v) + Occurrences(SeqVals(buf[l]), v) = 0
    /\ \A v \in Values \ Returned :
        \A l \in LaneIds : v \notin Range(enq[l]) \cup Range(recvd[l])
                                 \cup Range(SeqVals(buf[l]))

\* a receiver took one value and was dropped with another one buffered
C1_Witness ==
    \E l \in LaneIds :
        /\ rxst[l] = "dropped"
        /\ Len(recvd[l]) = 1
        /\ Len(enq[l]) = 2
        /\ Range(enq[l]) \subseteq Returned

\* ---- C2 ------------------------------------------------------------------
\* C2: while no receiver has been closed or dropped and the registry has not
\* been cleared, every tag has at most one lane; of the pushes to a tag that
\* returned exactly one returned Some(receiver), the creator of that lane,
\* all others returned None, and the lane holds all their values, each once,
\* received or buffered.
C2_SingleCreation ==
    ~evicted =>
        \A t \in Tags :
            LET lanes == {l \in 1..nlanes : ltag[l] = t}
                vals == {v \in Returned : vtag[v] = t}
                some == {v \in vals : vres[v][1] = "Some"} IN
            /\ Cardinality(lanes) <= 1
            /\ vals # {} => Cardinality(some) = 1 /\ Cardinality(lanes) = 1
            /\ \A l \in lanes :
                /\ \A v \in some : vres[v] = <<"Some", l>>
                /\ Range(enq[l]) = vals
                /\ Len(enq[l]) = Cardinality(vals)
                /\ recvd[l] \o SeqVals(buf[l]) = enq[l]

\* two producers pushed to the same unseen tag: one got Some, the other None
C2_Witness ==
    /\ ~evicted
    /\ \E v, w \in Returned :
        /\ pusher[v] # pusher[w]
        /\ vtag[v] = vtag[w]
        /\ vres[v][1] = "Some"
        /\ vres[w] = <<"None">>
        /\ \E l \in LaneIds : {v, w} \subseteq Range(recvd[l])

\* ---- C3 ------------------------------------------------------------------
\* C3: what a lane receiver has obtained from recv is a prefix of the
\* sequence in which the pushes enqueued into its lane, and two values pushed
\* by the same producer are received in the order they were pushed.
C3_PerTagFifo ==
    \A l \in LaneIds :
        /\ IsPrefix(recvd[l], enq[l])
        /\ \A i, j \in 1..Len(recvd[l]) :
              (i < j /\ pusher[recvd[l][i]] = pusher[recvd[l][j]])
                  => recvd[l][i] < recvd[l][j]

\* a receiver obtained two values that were buffered together
C3_Witness ==
    \E l \in LaneIds :
        /\ Len(recvd[l]) >= 2
        /\ pusher[recvd[l][1]] = pusher[recvd[l][2]]
        /\ recvd[l][1] \in Returned /\ recvd[l][2] \in Returned
        /\ nextVal > MaxPush

\* ---- C4 ------------------------------------------------------------------
\* a close() or a drop of the LaneRx of lane l completes in this step
RxReleased(l) ==
    \/ CloseManualDrop(l)
    \/ CloseStart(l) /\ rpc'[l] = "idle"
    \/ DropSlot(l)

\* the producer p starts or retries a push of v to the tag t in this step
PushAttempt(p, t, v) ==
    \/ PushStart(p, t) /\ v = nextVal
    \/ PushRetry(p) /\ t = ptag[p] /\ v = pval[p]

\* C4: when a close() or a drop of a lane receiver completes, the registry
\* does not contain its tag; a push that finds its tag absent returns
\* Some(receiver) of a new lane registered under the tag, holding the pushed
\* value only; the first value a receiver obtains is always the value of the
\* push that created its lane.
C4_EvictionOnClose ==
    [][/\ \A l \in LaneIds : RxReleased(l) => map'[ltag[l]] = Absent
       /\ \A p \in Procs, t \in Tags, v \in Values :
            (PushAttempt(p, t, v) /\ map[t] = Absent) =>
                /\ nlanes' = nlanes + 1
                /\ map'[t] = nlanes'
                /\ vres'[v] = <<"Some", nlanes'>>
                /\ ltag'[nlanes'] = t
                /\ buf'[nlanes'] = <<<<t, v>>>>
                /\ rxst'[nlanes'] = "open"
       /\ \A l \in LaneIds :
            Len(recvd'[l]) >= 1 => vres'[recvd'[l][1]] = <<"Some", l>>
      ]_vars

\* send(a,1) -> Some, send(a,2) -> None, receiver dropped, send(a,3) -> Some
\* and the new lane yields 3
C4_Witness ==
    \E l, k \in LaneIds :
        /\ l # k /\ ltag[l] = ltag[k]
        /\ rpc[l] = "gone"
        /\ vres[1] = <<"Some", l>>
        /\ vres[2] = <<"None">>
        /\ enq[l] = <<1, 2>>
        /\ vres[3] = <<"Some", k>>
        /\ recvd[k] = <<3>>

\* ---- C5 ------------------------------------------------------------------
\* C5 as stated: dropping the MapSlot of a lane whose entry is no longer the
\* one stored under its key (removed, or replaced by a newer lane's entry)
\* leaves the registry as it is.
C5_DropRemovesOwnEntryOnly ==
    [][\A l \in LaneIds :
         (DropSlot(l) /\ map[ltag[l]] # l) => map' = map]_vars

\* ---- C6 ------------------------------------------------------------------
\* C6 as stated: a live receiver reports is_closed() whenever the entry of
\* its tag is not the sender of its own lane.
C6_ClosedUnlessOwner ==
    \A l \in LaneIds :
        (RxLive(l) /\ ~HasSender(l)) => RxIsClosed(l)

\* ---- C7 ------------------------------------------------------------------
\* C7 as stated: nothing is enqueued into a lane whose receiver was closed,
\* and a recv on such a receiver returns None only when no value is left in
\* the lane's buffer.
C7_CloseKeepsBuffered ==
    [][\A l \in LaneIds :
         rxst[l] = "closed" =>
            /\ enq'[l] = enq[l]
            /\ (RecvStart(l) /\ ret'[l] = "None" /\ rpc'[l] = "idle")
                   => buf[l] = <<>>
      ]_vars

\* ---- C8 ------------------------------------------------------------------
\* C8 as stated: after Mux::close() a handler that neither closed nor dropped
\* its receiver gets None from recv only when no value is left in its lane's
\* buffer, and what it has received is a prefix of what was sent to its lane.
C8_MuxCloseKeepsBuffered ==
    [][\A l \in LaneIds :
         /\ IsPrefix(recvd'[l], enq'[l])
         /\ (~busAlive /\ rxst[l] = "open" /\ RecvStart(l)
               /\ ret'[l] = "None" /\ rpc'[l] = "idle") => buf[l] = <<>>
      ]_vars

\* ---- C9 ------------------------------------------------------------------
\* C9: Bus::clear and the drop of the Bus (Mux::close) leave the registry
\* empty, no shard locked and every outstanding receiver with is_closed() =
\* true; once the Bus is dropped this stays so and a recv that was suspended
\* can complete; a recv that starts on a receiver reporting is_closed()
\* returns None at once.
C9_ClosedAfterMuxClose ==
    [][/\ (Clear \/ BusDrop) =>
            /\ \A t \in Tags : map'[t] = Absent
            /\ \A s \in Shards : lock'[s] = Free
            /\ \A l \in LaneIds : RxLive(l) => RxIsClosed(l)'
       /\ ~busAlive' =>
            /\ \A t \in Tags : map'[t] = Absent
            /\ \A s \in Shards : lock'[s] = Free
            /\ \A l \in LaneIds :
                 /\ RxLive(l)' => RxIsClosed(l)'
                 /\ rpc'[l] = "recv" => (buf'[l] # <<>> \/ ~HasSender(l)')
       /\ \A l \in LaneIds :
            (RxIsClosed(l) /\ RecvStart(l)) =>
                (ret'[l] = "None" /\ rpc'[l] = "idle")
      ]_vars

\* the Bus was dropped with a receiver outstanding, whose recv returned None
C9_Witness ==
    /\ ~busAlive
    /\ \E l \in LaneIds :
        /\ RxLive(l)
        /\ rxst[l] = "open"
        /\ rpc[l] = "idle"
        /\ ret[l] = "None"
        /\ \E k \in LaneIds : k # l /\ RxLive(k) /\ ltag[k] # ltag[l]

\* ---- C10 -----------------------------------------------------------------
\* everything sent into the aggregator channel, in order
AggAll == aggRecvd \o agg

\* the replies the handler of lane l has sent, as the aggregator sees them
RepliesOf(l) == [i \in 1..nrep[l] |-> <<ltag[l], ReplyOf(recvd[l][i])>>]

\* the items of the aggregator channel that answer values of lane l
AggOf(l) ==
    LET FromLane(item) == \E v \in Range(enq[l]) : item[2] = ReplyOf(v)
    IN SelectSeq(AggAll, FromLane)

YieldedOf(l) ==
    LET FromLane(item) == \E v \in Range(enq[l]) : item[2] = ReplyOf(v)
    IN SelectSeq(aggRecvd, FromLane)

\* the Mux was closed and the sender of every Lane it handed out was dropped
AllSendersGone == ~busAlive /\ \A l \in 1..nlanes : txDropped[l]

\* C11: the aggregator receiver yields None only after the Mux was closed and
\* every lane sender was dropped, and only after it yielded every reply the
\* handlers sent; once the Mux is closed and every lane sender is dropped the
\* receiver is never stuck: it yields a buffered reply or None.
C11_AggregatorEndOfStream ==
    /\ aggDone =>
        /\ AllSendersGone
        /\ agg = <<>>
        /\ \A l \in 1..nlanes : YieldedOf(l) = RepliesOf(l)
    /\ (AllSendersGone /\ ~aggDone) => (ENABLED AggRecv \/ ENABLED AggEnd)

\* the receiver yielded None after it yielded replies of two lanes
C11_Witness ==
    /\ aggDone
    /\ nlanes = 2
    /\ \A l \in 1..nlanes : nrep[l] >= 1 /\ YieldedOf(l) = RepliesOf(l)

\* ---- C12 -----------------------------------------------------------------
\* C12: close() called on a receiver whose close() already ran (its channel
\* is closed) is a no-op: it returns at its is_closed test, so it changes no
\* registry entry and no lane, whatever was pushed in between.
C12_IdempotentClose ==
    [][\A l \in LaneIds :
         (rxst[l] = "closed" /\ CloseStart(l)) =>
             UNCHANGED <<map, rxst, buf, rpc>>
      ]_vars

CreatedBy(v, l) == enq[l] # <<>> /\ enq[l][1] = v

\* the push of v enqueued into lane l, which an earlier call had created
JoinedBy(v, l) == \E i \in 2..Len(enq[l]) : enq[l][i] = v

SelfDeadlocked(p) == pc[p] = "remove" /\ lock[shardOf[ptag[p]]] = p

\* C15: a push whose target lane turns out to be consumer-closed terminates:
\* it is never left waiting for something that cannot happen any more.
C15_RetryTerminates == \A p \in Procs : ~SelfDeadlocked(p)

\* ---- C16 -----------------------------------------------------------------
\* the receivers of tag t that are not dropped and whose handle is_valid()
ValidHandles(t) == {l \in LaneIds : RxLive(l) /\ ltag[l] = t /\ SlotIsValid(l)}

\* C16: for every tag at most one handle held by a not yet dropped receiver
\* has is_valid() true.
C16_SingleValidHandle == \A t \in Tags : Cardinality(ValidHandles(t)) <= 1

\* ---- C17 -----------------------------------------------------------------
\* v has been enqueued into no lane so far
EnqueuedNowhere(v) == \A l \in LaneIds : v \notin Range(enq[l])

\* C17: a value is enqueued only by its own push, once, in the step in which
\* that push returns, and into a lane of the value's tag that is the
\* registry's entry for the tag at that moment (before and after the step) or
\* that the step itself created and registered; a push returns only in a step
\* that enqueues its value.
C17_EnqueueIntoRegisteredLane ==
    [][/\ \A l \in LaneIds :
            enq'[l] # enq[l] =>
                \E v \in Values :
                    /\ enq'[l] = Append(enq[l], v)
                    /\ EnqueuedNowhere(v)
                    /\ vres[v] = <<"-">> /\ vres'[v] # <<"-">>
                    /\ ltag'[l] = vtag'[v]
                    /\ map'[vtag'[v]] = l
                    /\ \/ map[vtag'[v]] = l
                       \/ l = nlanes' /\ nlanes' = nlanes + 1
                    /\ \A k \in LaneIds \ {l} : enq'[k] = enq[k]
       /\ \A v \in Values :
            (vres[v] = <<"-">> /\ vres'[v] # <<"-">>) =>
                \E l \in LaneIds : enq'[l] = Append(enq[l], v)
      ]_vars

\* a tag lost its lane and got a new one, and a later push returned None
\* after enqueueing into the new lane
C17_Witness ==
    \E l, k \in LaneIds : \E v \in Returned :
        /\ l < k /\ ltag[l] = ltag[k]
        /\ enq[l] # <<>>
        /\ JoinedBy(v, k)
        /\ vres[v] = <<"None">>

\* ---- C18 -----------------------------------------------------------------
\* the recv of lane l got None from its empty channel (every sender dropped,
\* or the channel closed) and waits in manual_drop for the lock of its tag's
\* shard, which a self-deadlocked producer holds and never releases
RecvBlockedForever(l) ==
    /\ rpc[l] = "mdrop"
    /\ \E p \in Procs :
        SelfDeadlocked(p) /\ shardOf[ptag[p]] = shardOf[ltag[l]]

\* C18: a recv suspended on an empty lane completes once a value is pushed,
\* every sender is dropped or the receiver is closed: it is never left
\* waiting for something that cannot happen any more.
C18_RecvCompletes == \A l \in LaneIds : ~RecvBlockedForever(l)

\* ---- C19 -----------------------------------------------------------------
\* the push of p is suspended in tx.send: the lane of its tag is open and
\* its buffer is full
SuspendedOnFull(p) ==
    /\ pc[p] = "send"
    /\ ~TxIsClosed(map[ptag[p]])
    /\ Len(buf[map[ptag[p]]]) = LaneBuf

\* C19: while a push to a tag t is suspended on t's full lane buffer, the
\* registry operations on every other tag u can proceed: the lock that a
\* push to u and the recv, close and drop of u's receiver need is free.
C19_DistinctTagsDoNotContend ==
    \A p \in Procs, u \in Tags :
        (SuspendedOnFull(p) /\ u # ptag[p]) => ShardFree(u)

\* ---- C20 -----------------------------------------------------------------
\* C20: a push attempt that finds its tag registered with a channel that is
\* already closed removes the entry and retries at once (there is no
\* suspension point in between): the attempt ends with a fresh lane
\* registered under the tag, holding the pushed value only, and returns
\* Some(receiver of that lane).
C20_ClosedEntryReplaced ==
    [][\A p \in Procs, t \in Tags, v \in Values :
         (/\ PushAttempt(p, t, v)
          /\ map[t] # Absent
          /\ TxIsClosed(map[t])) =>
            /\ nlanes' = nlanes + 1
            /\ map'[t] = nlanes'
            /\ buf'[nlanes'] = <<<<t, v>>>>
            /\ vres'[v] = <<"Some", nlanes'>>
      ]_vars

\* ---- C21 -----------------------------------------------------------------
\* C21: the drop of a handle removes whatever entry is stored under the
\* handle's key, whichever lane it belongs to, and leaves the entry of every
\* other key as it was; when the key is absent already, the registry is
\* unchanged.
C21_DropRemovesCurrentEntry ==
    [][\A l \in LaneIds :
         DropSlot(l) =>
            /\ map'[ltag[l]] = Absent
            /\ \A u \in Tags \ {ltag[l]} : map'[u] = map[u]
            /\ map[ltag[l]] = Absent => map' = map
      ]_vars

\* the receiver of an older lane of a tag is gone, its handle dropped, and
\* the tag is absent although the receiver of its newer lane is open and idle
C21_Witness ==
    \E l, k \in LaneIds :
        /\ l < k /\ ltag[l] = ltag[k]
        /\ rpc[l] = "gone"
        /\ RxLive(k) /\ rxst[k] = "open" /\ enq[k] # <<>>
        /\ map[ltag[k]] = Absent
        /\ evicted
        /\ \A p \in Procs : pc[p] = "idle"
        /\ rpc[k] = "idle" /\ ret[k] = "-"

\* ---- C22 -----------------------------------------------------------------
\* C22: a lane exists only with its creating value enqueued and its creating
\* push returned (Some of that lane): the creating call is never suspended in
\* between; and the first value a lane's receiver takes, or would take next
\* from the buffer, is that creating value, whoever else pushed to the tag.
C22_CreationEnqueues ==
    /\ LaneBuf >= 1
    /\ \A l \in 1..nlanes :
        /\ enq[l] # <<>>
        /\ vres[enq[l][1]] = <<"Some", l>>
        /\ \A p \in Procs : pc[p] # "idle" => ~CreatedBy(pval[p], l)
        /\ recvd[l] # <<>> => recvd[l][1] = enq[l][1]
        /\ (recvd[l] = <<>> /\ buf[l] # <<>>) => buf[l][1][2] = enq[l][1]

\* a receiver took the creating value first and then a value that the other
\* producer pushed to the same tag
C22_Witness ==
    \E l \in LaneIds :
        /\ Len(recvd[l]) >= 2
        /\ recvd[l][1] = enq[l][1]
        /\ pusher[recvd[l][1]] # pusher[recvd[l][2]]

\* ---- C23 -----------------------------------------------------------------
\* C23: every item in a lane's channel, hence every item its receiver takes
\* out, carries the receiver's tag (the debug_assert_eq of map_value), and
\* the sender of the Lane built by Mux::send stamps the tag of the Lane's
\* receiver (the assert_eq of Lane::from_parts).
C23_TagsMatch ==
    \A l \in 1..nlanes :
        /\ \A i \in 1..Len(buf[l]) : buf[l][i][1] = ltag[l]
        /\ \A v \in Values : LaneSenderItem(l, v)[1] = ltag[l]

\* lanes of two different tags were built, and the receiver of each took a
\* value out of its channel
C23_Witness ==
    \E l, k \in LaneIds :
        /\ Created(l) /\ Created(k)
        /\ ltag[l] = "a" /\ ltag[k] = "b"
        /\ recvd[l] # <<>> /\ recvd[k] # <<>>
        /\ nrep[k] >= 1

C25_NoProducerHandlerDeadlock ==
    \A p \in Procs :
        LET l == map[ptag[p]] IN
        (SuspendedOnFull(p) /\ rpc[l] = "idle") => ENABLED RecvStart(l)

\* ---- C26 -----------------------------------------------------------------
\* C26: closedness is stable: a receiver that is not dropped and whose last
\* recv returned None (at its is_closed test or at the end of its channel)
\* reports is_closed(), and its stream is_terminated(), ever after, whatever
\* is pushed to its tag.
C26_ClosednessStable ==
    \A l \in LaneIds :
        (RxLive(l) /\ ret[l] = "None") => (RxIsClosed(l) /\ IsTerminated(l))

\* ---- C27 -----------------------------------------------------------------
\* the receiver of lane l is between closing its channel and releasing its
\* handle, in close() or in its drop
InReleaseWindow(l) == rpc[l] \in {"closeslot", "dropslot"}

\* C27: once a receiver is dropped completely the registry holds no sender
\* of its lane; an entry whose channel is closed is registered only while
\* its receiver is between the closing of the channel and the release of the
\* handle.
C27_NoHalfClosedEntry ==
    /\ \A l \in LaneIds : rpc[l] = "gone" => ~HasSender(l)
    /\ \A t \in Tags :
        (map[t] # Absent /\ TxIsClosed(map[t])) => InReleaseWindow(map[t])

\* one receiver is dropped completely, another has dropped its channel and
\* not yet its handle, its closed sender still registered
C27_Witness ==
    \E l, k \in LaneIds :
        /\ rpc[l] = "gone"
        /\ rpc[k] = "dropslot"
        /\ HasSender(k)
        /\ TxIsClosed(k)

\* ---- C28 -----------------------------------------------------------------
\* C28: a send_to that finds an open sender under its tag sends the value on
\* it; one that publishes a new stream gives it the value as its first item,
\* registers its sender under the tag and returns Ok; one that finds the
\* pending channel closed returns Err and leaves the tag-to-sender map as the
\* call found it.
C28_SendTo ==
    [][/\ (SinkSend /\ ~StreamTxIsClosed(streamsTx[sendTag])) =>
            /\ sbuf'[streamsTx[sendTag]] =
                   Append(sbuf[streamsTx[sendTag]], sendVal)
            /\ sres'[sendVal] = "Ok"
       /\ SinkFirst =>
            /\ sbuf'[nstreams] = <<sendVal>>
            /\ streamsTx'[sendTag] = nstreams
            /\ sres'[sendVal] = "Ok"
       /\ (SinkPublish /\ ~pendOpen) =>
            /\ sres'[sendVal] = "Err"
            /\ streamsTx' = smapAt
      ]_vars

\* ---- C29 -----------------------------------------------------------------
\* no push_back and no pop_front is under way
QQuiescent == NoQPush /\ qpop = "idle"

\* C29: whenever every push_back and pop_front begun has completed, len() is
\* the number of items held, is_empty() holds exactly when the queue holds
\* nothing and is_full() exactly when it holds capacity() items; the counter
\* never leaves 0..capacity() (it neither underflows nor overshoots); the
\* items are popped in the order in which they were pushed.
C29_QueueCounter ==
    /\ QQuiescent =>
        /\ QLen = Len(qbuf)
        /\ QIsEmpty <=> qbuf = <<>>
        /\ QIsFull <=> Len(qbuf) = QCapacity
    /\ QIsEmpty <=> QLen = 0
    /\ 0 <= QLen /\ QLen <= QCapacity
    /\ qpopped \o qbuf = qsent

\* the queue is full again after two items were popped, pushed by two tasks
C29_Witness ==
    /\ QQuiescent
    /\ QIsFull
    /\ Len(qpopped) = 2
    /\ \E p, q \in Procs : p # q /\ qval[p] # 0 /\ qval[q] # 0
====
